---- MODULE Spec2Model ----
(***************************************************************************)
(* The to-do list screens of react-native-todo-app: the in-memory task     *)
(* collection (React state `tasks`), the handlers that change it, and the  *)
(* AsyncStorage slot it is mirrored to by the load and save effects.       *)
(*                                                                         *)
(* The repository holds three iterations of the same screen:               *)
(*   "index"    src/app/(tabs)/index.tsx                                   *)
(*   "part_000" src/unnamed/part_000                                       *)
(*   "part_001" src/unnamed/part_001                                       *)
(* `variant` says which of them is mounted; it never changes in a run.     *)
(*                                                                         *)
(* Strings are sequences of characters.  A JSON text is a record           *)
(* [kind, items]; an item of an array text is a record that lists the keys *)
(* it carries.                                                             *)
(***************************************************************************)
EXTENDS Integers, Sequences, FiniteSets, TLC

VARIABLES
  variant,        \* which screen is mounted
  tasks,          \* useState<Task[]>([])
  taskTitle,      \* useState('') : text of the "Add a new task" input
  editingTaskId,  \* index.tsx: useState<string | null>(null)
  editingTitle,   \* index.tsx: useState('')
  clock,          \* the reading Date.now() returns
  storage,        \* the value AsyncStorage holds under the screen's key
  queue,          \* AsyncStorage requests issued and not yet completed
  loadReport,     \* what loadTasks did with a failure
  restarts,       \* how many times the process was started again
  saveReport,     \* what saveTasks did with a failure
  lastWrite,      \* how the setItem that completed last ended
  overlapped,     \* a save was issued while an earlier one was outstanding
  outstandingLimit \* the bound of the run on the outstanding requests

vars == <<variant, tasks, taskTitle, editingTaskId, editingTitle, clock,
          storage, queue, loadReport, restarts, saveReport, lastWrite,
          overlapped, outstandingLimit>>

----------------------------------------------------------------------------
(* Bounds of the model *)

MaxTasks == 2      \* longest collection
MaxClock == 2      \* last clock reading
MaxQueue == 1      \* a handler runs while fewer requests than this are outstanding
MaxRestarts == 1   \* most process restarts
MaxOverlap == 3    \* the same, where saves are let overlap

Variants == {"index", "part_000", "part_001"}

\* the texts typed into the inputs: nothing, only whitespace, a plain
\* title, a title with whitespace around it
Strings == {<<>>, <<" ">>, <<"a">>, <<" ", "b", " ">>}

----------------------------------------------------------------------------
(* Strings *)

IsSpace(c) == c = " "

RECURSIVE TrimStart(_)
TrimStart(s) ==
  IF s = <<>> THEN s
  ELSE IF IsSpace(Head(s)) THEN TrimStart(Tail(s)) ELSE s

RECURSIVE TrimEnd(_)
TrimEnd(s) ==
  IF s = <<>> THEN s
  ELSE IF IsSpace(s[Len(s)]) THEN TrimEnd(SubSeq(s, 1, Len(s) - 1)) ELSE s

\* String.prototype.trim
trim(s) == TrimEnd(TrimStart(s))

Digit(d) == <<"0", "1", "2", "3", "4", "5", "6", "7", "8", "9">>[d + 1]

\* Number.prototype.toString, for the non-negative readings of Date.now()
RECURSIVE toString(_)
toString(n) ==
  IF n < 10 THEN <<Digit(n)>>
  ELSE toString(n \div 10) \o <<Digit(n % 10)>>

\* the JavaScript value undefined, where a string was expected
Undefined == <<"undefined">>
\* the JavaScript value null of editingTaskId
Null == <<"null">>

AllIds == {toString(c) : c \in 1..MaxClock}

----------------------------------------------------------------------------
(* The Task model *)

\* new Task(id, title, completed, isEditing); index.tsx's Task has no
\* isEditing field, which the model keeps FALSE and never serializes
Task(id, title, completed, isEditing) ==
  [id |-> id, title |-> title, completed |-> completed, isEditing |-> isEditing]

\* own enumerable properties of a task object of the mounted screen
FieldsOf(v) ==
  IF v = "index" THEN {"id", "title", "completed"}
  ELSE {"id", "title", "completed", "isEditing"}

----------------------------------------------------------------------------
(* JSON texts and the storage slot *)

\* getItem resolves to null: the key was never written
Absent == [kind |-> "absent", items |-> <<>>]
\* a stored text JSON.parse rejects
NotJson == [kind |-> "notjson", items |-> <<>>]
\* the text of a JSON array
ArrayText(items) == [kind |-> "array", items |-> items]

\* an array element that is an object carrying the keys `keys`
ObjectItem(keys, t) ==
  [kind |-> "object", keys |-> keys, id |-> t.id, title |-> t.title,
   completed |-> t.completed, isEditing |-> t.isEditing]
\* the array element null
NullItem ==
  [kind |-> "null", keys |-> {}, id |-> Undefined, title |-> Undefined,
   completed |-> FALSE, isEditing |-> FALSE]

\* JSON.stringify leaves out the properties whose value is undefined
IsDefined(t, k) ==
  CASE k = "id" -> t.id # Undefined
    [] k = "title" -> t.title # Undefined
    [] OTHER -> TRUE

\* JSON.stringify(tasks)
stringify(v, ts) ==
  ArrayText([i \in 1..Len(ts) |->
               ObjectItem({k \in FieldsOf(v) : IsDefined(ts[i], k)}, ts[i])])

\* item.k for a parsed array element: undefined when the key is missing
StringProp(item, k) == IF k \in item.keys THEN item[k] ELSE Undefined
\* a missing boolean is undefined, for which the constructor's default
\* parameter (= false) applies; raw objects read it as falsy
BoolProp(item, k) == IF k \in item.keys THEN item[k] ELSE FALSE

\* Rehydrate as it would be with the completed argument left out:
\* new Task(t.id, t.title)
RehydrateWithoutCompleted(v, item) ==
  Task(StringProp(item, "id"), StringProp(item, "title"), FALSE,
       IF v = "index" THEN FALSE ELSE BoolProp(item, "isEditing"))

\* the callback of parsed.map in loadTasks
Rehydrate(v, item) ==
  CASE v = "part_001" ->
         Task(StringProp(item, "id"), StringProp(item, "title"),
              BoolProp(item, "completed"), BoolProp(item, "isEditing"))
    [] v = "index" ->
         Task(StringProp(item, "id"), StringProp(item, "title"),
              BoolProp(item, "completed"), FALSE)
    [] OTHER ->  \* part_000 keeps the parsed value as it is
         Task(StringProp(item, "id"), StringProp(item, "title"),
              BoolProp(item, "completed"), BoolProp(item, "isEditing"))

\* reading a property of null throws a TypeError
MapThrows(v, items) ==
  /\ v # "part_000"
  /\ \E i \in 1..Len(items) : items[i].kind = "null"

\* what the screen does with an error thrown in loadTasks or saveTasks
Reporter(v) ==
  CASE v = "part_001" -> "alert"       \* Alert.alert('Error', ...)
    [] v = "index" -> "console"        \* console.error(...)
    [] OTHER -> "unhandled"            \* no try/catch: the promise rejects

\* loadTasks, from the value getItem resolved to:
\* set: setTasks was called; tasks: with what; report: the failure report
loadTasks(v, stored) ==
  CASE stored.kind = "absent" ->
         [set |-> FALSE, tasks |-> <<>>, report |-> "none"]
    [] stored.kind = "notjson" ->
         [set |-> FALSE, tasks |-> <<>>, report |-> Reporter(v)]
    [] OTHER ->
         IF MapThrows(v, stored.items)
         THEN [set |-> FALSE, tasks |-> <<>>, report |-> Reporter(v)]
         ELSE [set |-> TRUE,
               tasks |-> [i \in 1..Len(stored.items) |->
                            Rehydrate(v, stored.items[i])],
               report |-> "none"]

\* requests to AsyncStorage
GetItem == [op |-> "getItem", value |-> Absent]
SetItem(text) == [op |-> "setItem", value |-> text]

----------------------------------------------------------------------------
(* The updaters passed to setTasks *)

\* new Task(Date.now().toString(), title) of addTask
NewTask(v, title, now) ==
  Task(toString(now), IF v = "part_001" THEN trim(title) ELSE title,
       FALSE, FALSE)

\* [...prev, newTask]
AddedTasks(prev, newTask) == Append(prev, newTask)

\* RemovedTasks as it would be with the comparison turned around:
\* prev.filter(task => task.id === id)
RemovedTasksInverted(prev, id) == SelectSeq(prev, LAMBDA t : t.id = id)

\* prev.filter(task => task.id !== id)
RemovedTasks(prev, id) == SelectSeq(prev, LAMBDA t : t.id # id)

\* ToggledTasks as it would be if it set the flag instead of flipping it:
\* new Task(task.id, task.title, true, task.isEditing)
ToggledTasksSetsTrue(prev, id) ==
  [i \in 1..Len(prev) |->
     IF prev[i].id = id
     THEN Task(prev[i].id, prev[i].title, TRUE, prev[i].isEditing)
     ELSE prev[i]]

\* prev.map(task => task.id === id ? new Task(.., !task.completed, ..) : task)
ToggledTasks(prev, id) ==
  [i \in 1..Len(prev) |->
     IF prev[i].id = id
     THEN Task(prev[i].id, prev[i].title, ~prev[i].completed, prev[i].isEditing)
     ELSE prev[i]]

\* prev.map(task => task.id === id ? {...task, isEditing: true}
\*                                 : {...task, isEditing: false})
EditedTasks(prev, id) ==
  [i \in 1..Len(prev) |-> [prev[i] EXCEPT !.isEditing = (prev[i].id = id)]]

\* prev.map(task => ({...task, isEditing: false}))
CancelledTasks(prev) ==
  [i \in 1..Len(prev) |-> [prev[i] EXCEPT !.isEditing = FALSE]]

\* the title updateTask / onSubmitEditing stores
StoredTitle(v, newTitle) == IF v = "part_001" THEN trim(newTitle) ELSE newTitle

\* prev.map(task => task.id === id
\*            ? new Task(task.id, <title>, task.completed, false) : task)
UpdatedTasks(v, prev, id, newTitle) ==
  [i \in 1..Len(prev) |->
     IF prev[i].id = id
     THEN Task(prev[i].id, StoredTitle(v, newTitle), prev[i].completed, FALSE)
     ELSE prev[i]]

----------------------------------------------------------------------------
(* State after the screen is mounted *)

\* the effects of the first render, in the order they are declared:
\* loadTasks issues getItem, then saveTasks issues setItem for the empty list
MountQueue(v) == <<GetItem, SetItem(stringify(v, <<>>))>>

Init ==
  /\ variant \in Variants
  /\ tasks = <<>>
  /\ taskTitle = <<>>
  /\ editingTaskId = Null
  /\ editingTitle = <<>>
  /\ clock = 1
  /\ storage = Absent
  /\ queue = MountQueue(variant)
  /\ loadReport = "none"
  /\ restarts = 0
  /\ saveReport = "none"
  /\ lastWrite = "none"
  /\ overlapped = FALSE
  /\ outstandingLimit = MaxQueue

\* a setItem is outstanding
HasSetItem(q) == \E i \in 1..Len(q) : q[i].op = "setItem"

\* setTasks as it would be if the save were issued by the handler, from the
\* collection of the render it closed over, and not by the [tasks] effect
setTasksSavesStale(next) ==
  /\ tasks' = next
  /\ queue' = Append(queue, SetItem(stringify(variant, tasks)))
  /\ overlapped' = (overlapped \/ HasSetItem(queue))

\* setTasks(next): the state update, the render that follows it and the
\* [tasks] effect of that render, which calls saveTasks
setTasks(next) ==
  /\ tasks' = next
  /\ queue' = Append(queue, SetItem(stringify(variant, next)))
  /\ overlapped' = (overlapped \/ HasSetItem(queue))

\* bound on the outstanding requests
CanSetTasks == Len(queue) < outstandingLimit

Editing == variant \in {"part_000", "part_001"}

----------------------------------------------------------------------------
(* Handlers common to the three screens *)

\* onChangeText={setTaskTitle}
setTaskTitle(text) ==
  /\ UNCHANGED <<saveReport, lastWrite, overlapped>>
  /\ taskTitle' = text
  /\ UNCHANGED <<variant, outstandingLimit, tasks, editingTaskId, editingTitle, clock, storage,
                 queue, loadReport, restarts>>

\* addTask as it would be without the early return on a blank title
addTaskWithoutBlankCheck ==
  /\ UNCHANGED <<saveReport, lastWrite>>
  /\ Len(tasks) < MaxTasks
  /\ CanSetTasks
  /\ setTasks(AddedTasks(tasks, NewTask(variant, taskTitle, clock)))
  /\ taskTitle' = <<>>
  /\ UNCHANGED <<variant, outstandingLimit, editingTaskId, editingTitle, clock, storage,
                 loadReport, restarts>>

\* addTask: the early return on a blank title, else append and clear the input
addTask ==
  /\ UNCHANGED <<saveReport, lastWrite>>
  /\ IF trim(taskTitle) = <<>>
     THEN UNCHANGED <<tasks, queue, taskTitle, overlapped>>
     ELSE /\ Len(tasks) < MaxTasks
          /\ CanSetTasks
          /\ setTasks(AddedTasks(tasks, NewTask(variant, taskTitle, clock)))
          /\ taskTitle' = <<>>
  /\ UNCHANGED <<variant, outstandingLimit, editingTaskId, editingTitle, clock, storage,
                 loadReport, restarts>>

\* removeTask(id)
removeTask(id) ==
  /\ UNCHANGED <<saveReport, lastWrite>>
  /\ CanSetTasks
  /\ setTasks(RemovedTasks(tasks, id))
  /\ UNCHANGED <<variant, outstandingLimit, taskTitle, editingTaskId, editingTitle, clock,
                 storage, loadReport, restarts>>

\* toggleTask(id)
toggleTask(id) ==
  /\ UNCHANGED <<saveReport, lastWrite>>
  /\ CanSetTasks
  /\ setTasks(ToggledTasks(tasks, id))
  /\ UNCHANGED <<variant, outstandingLimit, taskTitle, editingTaskId, editingTitle, clock,
                 storage, loadReport, restarts>>

----------------------------------------------------------------------------
(* Editing in part_000 and part_001: the isEditing flag of the task *)

\* editTask(id), from the pencil icon or a long press on a rendered task
editTask(id) ==
  /\ UNCHANGED <<saveReport, lastWrite>>
  /\ Editing
  /\ \E i \in 1..Len(tasks) : tasks[i].id = id
  /\ CanSetTasks
  /\ setTasks(EditedTasks(tasks, id))
  /\ UNCHANGED <<variant, outstandingLimit, taskTitle, editingTaskId, editingTitle, clock,
                 storage, loadReport, restarts>>

\* cancelEdit, from the close icon or a press outside the inputs
cancelEdit ==
  /\ UNCHANGED <<saveReport, lastWrite>>
  /\ Editing
  /\ CanSetTasks
  /\ setTasks(CancelledTasks(tasks))
  /\ UNCHANGED <<variant, outstandingLimit, taskTitle, editingTaskId, editingTitle, clock,
                 storage, loadReport, restarts>>

\* updateTask(id, newTitle), from onChangeText (the typed text) or
\* onSubmitEditing (the title shown) of the input of a task being edited
updateTask(id, newTitle) ==
  /\ UNCHANGED <<saveReport, lastWrite>>
  /\ Editing
  /\ \E i \in 1..Len(tasks) : tasks[i].id = id /\ tasks[i].isEditing
  /\ CanSetTasks
  /\ setTasks(UpdatedTasks(variant, tasks, id, newTitle))
  /\ UNCHANGED <<variant, outstandingLimit, taskTitle, editingTaskId, editingTitle, clock,
                 storage, loadReport, restarts>>

----------------------------------------------------------------------------
(* Editing in index.tsx: editingTaskId and editingTitle *)

\* onLongPress of a rendered task
onLongPress(i) ==
  /\ UNCHANGED <<saveReport, lastWrite, overlapped>>
  /\ variant = "index"
  /\ editingTaskId' = tasks[i].id
  /\ editingTitle' = tasks[i].title
  /\ UNCHANGED <<variant, outstandingLimit, tasks, taskTitle, clock, storage, queue,
                 loadReport, restarts>>

IsRendered(id) == \E i \in 1..Len(tasks) : tasks[i].id = id

\* onChangeText={setEditingTitle} of the input of the task being edited
setEditingTitle(text) ==
  /\ UNCHANGED <<saveReport, lastWrite, overlapped>>
  /\ variant = "index"
  /\ IsRendered(editingTaskId)
  /\ editingTitle' = text
  /\ UNCHANGED <<variant, outstandingLimit, tasks, taskTitle, editingTaskId, clock, storage,
                 queue, loadReport, restarts>>

\* onSubmitEditing of the input of the task being edited
onSubmitEditing ==
  /\ UNCHANGED <<saveReport, lastWrite>>
  /\ variant = "index"
  /\ IsRendered(editingTaskId)
  /\ CanSetTasks
  /\ setTasks(UpdatedTasks(variant, tasks, editingTaskId, editingTitle))
  /\ editingTaskId' = Null
  /\ UNCHANGED <<variant, outstandingLimit, taskTitle, editingTitle, clock, storage,
                 loadReport, restarts>>

\* onBlur of the input of the task being edited
onBlur ==
  /\ UNCHANGED <<saveReport, lastWrite, overlapped>>
  /\ variant = "index"
  /\ IsRendered(editingTaskId)
  /\ editingTaskId' = Null
  /\ UNCHANGED <<variant, outstandingLimit, tasks, taskTitle, editingTitle, clock, storage,
                 queue, loadReport, restarts>>

----------------------------------------------------------------------------
(* AsyncStorage completing the requests, in the order they were issued *)

\* getItem resolves and loadTasks runs on
completeGetItem ==
  /\ queue # <<>>
  /\ Head(queue).op = "getItem"
  /\ LET r == loadTasks(variant, storage) IN
       /\ loadReport' = r.report
       /\ IF r.set
          THEN /\ tasks' = r.tasks
               /\ queue' = Append(Tail(queue),
                                  SetItem(stringify(variant, r.tasks)))
               /\ overlapped' = (overlapped \/ HasSetItem(Tail(queue)))
          ELSE /\ tasks' = tasks
               /\ queue' = Tail(queue)
               /\ overlapped' = overlapped
  /\ UNCHANGED <<saveReport, lastWrite>>
  /\ UNCHANGED <<variant, outstandingLimit, taskTitle, editingTaskId, editingTitle, clock,
                 storage, restarts>>

\* setItem resolves: the slot holds the written text
completeSetItem ==
  /\ queue # <<>>
  /\ Head(queue).op = "setItem"
  /\ storage' = Head(queue).value
  /\ queue' = Tail(queue)
  /\ lastWrite' = "ok"
  /\ UNCHANGED <<saveReport, overlapped>>
  /\ UNCHANGED <<variant, outstandingLimit, tasks, taskTitle, editingTaskId, editingTitle,
                 clock, loadReport, restarts>>

\* setItem rejects: the slot keeps its value and saveTasks reports, where
\* it has a catch
failSetItem ==
  /\ queue # <<>>
  /\ Head(queue).op = "setItem"
  /\ queue' = Tail(queue)
  /\ lastWrite' = "failed"
  /\ saveReport' = Reporter(variant)
  /\ UNCHANGED <<variant, outstandingLimit, tasks, taskTitle, editingTaskId,
                 editingTitle, clock, storage, loadReport, restarts,
                 overlapped>>

----------------------------------------------------------------------------
(* Environment *)

\* time passes: Date.now() returns a later reading
Tick ==
  /\ UNCHANGED <<saveReport, lastWrite, overlapped>>
  /\ clock < MaxClock
  /\ clock' = clock + 1
  /\ UNCHANGED <<variant, outstandingLimit, tasks, taskTitle, editingTaskId, editingTitle,
                 storage, queue, loadReport, restarts>>

\* the process ends and the screen is mounted again: React state is new,
\* requests not yet completed are lost, the slot keeps its value
Restart ==
  /\ restarts < MaxRestarts
  /\ restarts' = restarts + 1
  /\ tasks' = <<>>
  /\ taskTitle' = <<>>
  /\ editingTaskId' = Null
  /\ editingTitle' = <<>>
  /\ queue' = MountQueue(variant)
  /\ loadReport' = "none"
  /\ saveReport' = "none"
  /\ lastWrite' = "none"
  /\ overlapped' = FALSE
  /\ UNCHANGED <<variant, outstandingLimit, clock, storage>>

Next ==
  \/ \E text \in Strings : setTaskTitle(text)
  \/ addTask
  \/ \E id \in AllIds : removeTask(id)
  \/ \E id \in AllIds : toggleTask(id)
  \/ \E id \in AllIds : editTask(id)
  \/ cancelEdit
  \/ \E id \in AllIds, text \in Strings : updateTask(id, text)
  \/ \E i \in 1..Len(tasks) : onLongPress(i)
  \/ \E text \in Strings : setEditingTitle(text)
  \/ onSubmitEditing
  \/ onBlur
  \/ completeGetItem
  \/ completeSetItem
  \/ Tick
  \/ Restart

Spec == Init /\ [][Next]_vars

----------------------------------------------------------------------------
(* A slot that does not hold a task list when the screen is mounted *)

\* the array element {}
EmptyObject == ObjectItem({}, Task(Undefined, Undefined, FALSE, FALSE))

\* stored texts that are no JSON array of task records
CorruptTexts == {NotJson, ArrayText(<<NullItem>>), ArrayText(<<EmptyObject>>)}

InitCorrupt ==
  /\ variant \in Variants
  /\ tasks = <<>>
  /\ taskTitle = <<>>
  /\ editingTaskId = Null
  /\ editingTitle = <<>>
  /\ clock = 1
  /\ storage \in CorruptTexts
  /\ queue = MountQueue(variant)
  /\ loadReport = "none"
  /\ restarts = 0
  /\ saveReport = "none"
  /\ lastWrite = "none"
  /\ overlapped = FALSE
  /\ outstandingLimit = MaxQueue

SpecCorrupt == InitCorrupt /\ [][Next]_vars

----------------------------------------------------------------------------
(* Saves that overlap and fail: the handlers run while requests are        *)
(* outstanding, up to MaxOverlap of them, and a setItem may reject         *)

\* the one text typed into the input here
PlainStrings == {<<"a">>}

InitOverlap ==
  /\ variant \in Variants
  /\ tasks = <<>>
  /\ taskTitle = <<>>
  /\ editingTaskId = Null
  /\ editingTitle = <<>>
  /\ clock = 1
  /\ storage = Absent
  /\ queue = MountQueue(variant)
  /\ loadReport = "none"
  /\ restarts = 0
  /\ saveReport = "none"
  /\ lastWrite = "none"
  /\ overlapped = FALSE
  /\ outstandingLimit = MaxOverlap

NextOverlap ==
  \/ \E text \in PlainStrings : setTaskTitle(text)
  \/ addTask
  \/ \E id \in AllIds : removeTask(id)
  \/ \E id \in AllIds : toggleTask(id)
  \/ completeGetItem
  \/ completeSetItem
  \/ failSetItem
  \/ Tick
  \/ Restart

SpecOverlap == InitOverlap /\ [][NextOverlap]_vars

\* A process start over a slot that an earlier run has written: the slot
\* holds the snapshot of a non-empty collection and the user does nothing,
\* so only the mount's read, the saves the effects issue and their
\* outcomes happen.

\* a task as an earlier run has saved it
SavedTasks ==
  {Task(id, title, completed, FALSE) :
     id \in AllIds, title \in PlainStrings, completed \in BOOLEAN}

\* the non-empty collections an earlier run can have saved
SavedCollections ==
  {ts \in UNION {[1..n -> SavedTasks] : n \in 1..MaxTasks} :
     \A i, j \in 1..Len(ts) : i # j => ts[i].id # ts[j].id}

InitStartup ==
  /\ variant \in Variants
  /\ tasks = <<>>
  /\ taskTitle = <<>>
  /\ editingTaskId = Null
  /\ editingTitle = <<>>
  /\ clock = 1
  /\ storage \in {stringify(variant, ts) : ts \in SavedCollections}
  /\ queue = MountQueue(variant)
  /\ loadReport = "none"
  /\ restarts = 0
  /\ saveReport = "none"
  /\ lastWrite = "none"
  /\ overlapped = FALSE
  /\ outstandingLimit = MaxOverlap

NextStartup ==
  \/ completeGetItem
  \/ completeSetItem
  \/ failSetItem

SpecStartup == InitStartup /\ [][NextStartup]_vars

----------------------------------------------------------------------------
(* Vocabulary of the properties *)

IsBlank(s) == trim(s) = <<>>

\* a task record as the slot's contract describes it
IsTaskRecord(item) ==
  item.kind = "object" /\ {"id", "title", "completed"} \subseteq item.keys

\* the slot holds a value that is no sequence of task records
IsMalformed(stored) ==
  \/ stored.kind = "notjson"
  \/ /\ stored.kind = "array"
     /\ \E i \in 1..Len(stored.items) : ~IsTaskRecord(stored.items[i])

\* the positions of ts whose task has not the id
Kept(ts, id) == {i \in 1..Len(ts) : ts[i].id # id}

\* rename(id, text) of any of the screens
Rename(id, text) ==
  \/ updateTask(id, text)
  \/ onSubmitEditing /\ id = editingTaskId /\ text = editingTitle

----------------------------------------------------------------------------
(* C1: the ids of the tasks in memory are pairwise distinct in every       *)
(* reachable state, also after two adds that read the same clock value.    *)
C1_IdsDistinct ==
  \A i, j \in 1..Len(tasks) : i # j => tasks[i].id # tasks[j].id

(* C2: no task in memory and no task of the persisted snapshot has a title *)
(* that is empty or only whitespace.                                       *)
C2_NoBlankTitle ==
  /\ \A i \in 1..Len(tasks) : ~IsBlank(tasks[i].title)
  /\ \A i \in 1..Len(storage.items) : ~IsBlank(storage.items[i].title)

(* C3: a rename of an existing task keeps the title when the new title     *)
(* trims to the empty string and stores the trimmed new title otherwise;   *)
(* the task's id, completed flag and position and every other task are     *)
(* unchanged.                                                              *)
C3_RenameContract ==
  [][\A id \in AllIds, text \in Strings :
       Rename(id, text) =>
         /\ Len(tasks') = Len(tasks)
         /\ \A i \in 1..Len(tasks) :
              IF tasks[i].id = id
              THEN /\ tasks'[i].title =
                        (IF IsBlank(text) THEN tasks[i].title ELSE trim(text))
                   /\ tasks'[i].id = tasks[i].id
                   /\ tasks'[i].completed = tasks[i].completed
              ELSE tasks'[i] = tasks[i]]_vars

(* C4: an add with a title that is empty or only whitespace leaves the     *)
(* collection as it was and issues no write to the slot.                   *)
C4_BlankAddIsNoOp ==
  [][(addTask /\ IsBlank(taskTitle)) => (tasks' = tasks /\ queue' = queue)]_vars

\* a whitespace-only title is in the input, tasks exist, no write is out
C4_Witness ==
  /\ taskTitle # <<>>
  /\ IsBlank(taskTitle)
  /\ tasks # <<>>
  /\ queue = <<>>

(* C5: an add with a title that is not blank appends exactly one task,     *)
(* with the trimmed title and completed = false, at the end, leaves the    *)
(* tasks before it as they were and triggers a save of the new collection. *)
C5_AddAppends ==
  [][(addTask /\ ~IsBlank(taskTitle)) =>
       /\ Len(tasks') = Len(tasks) + 1
       /\ SubSeq(tasks', 1, Len(tasks)) = tasks
       /\ tasks'[Len(tasks')].title = trim(taskTitle)
       /\ tasks'[Len(tasks')].completed = FALSE
       /\ queue' = Append(queue, SetItem(stringify(variant, tasks')))]_vars

(* C6: toggle(id) flips the completed flag of the task with the id and     *)
(* nothing else; a second toggle(id) restores the collection; a toggle     *)
(* with an id no task has changes nothing.                                 *)
C6_ToggleFlips ==
  [][\A id \in AllIds :
       toggleTask(id) =>
         /\ Len(tasks') = Len(tasks)
         /\ \A i \in 1..Len(tasks) :
              IF tasks[i].id = id
              THEN tasks'[i] = [tasks[i] EXCEPT !.completed = ~tasks[i].completed]
              ELSE tasks'[i] = tasks[i]
         /\ ToggledTasks(tasks', id) = tasks
         /\ (Kept(tasks, id) = 1..Len(tasks) => tasks' = tasks)]_vars

\* of two tasks, the second is completed and the first is not
C6_Witness ==
  /\ Len(tasks) = 2
  /\ ~tasks[1].completed
  /\ tasks[2].completed
  /\ tasks[1].id # tasks[2].id

(* C7: remove(id) deletes the task with the id and keeps the others as     *)
(* they were and in their order; a remove with an id no task has, such as  *)
(* a second remove(id), changes nothing.                                   *)
C7_RemoveDeletes ==
  [][\A id \in AllIds :
       removeTask(id) =>
         /\ Len(tasks') = Cardinality(Kept(tasks, id))
         /\ \A i \in Kept(tasks, id) :
              tasks'[Cardinality({k \in Kept(tasks, id) : k <= i})] = tasks[i]
         /\ RemovedTasks(tasks', id) = tasks'
         /\ (Kept(tasks, id) = 1..Len(tasks) => tasks' = tasks)]_vars

\* the slot still holds two tasks; the first was removed from memory and
\* the write of the remaining one is outstanding
C7_Witness ==
  /\ Len(tasks) = 1
  /\ storage.kind = "array"
  /\ Len(storage.items) = 2
  /\ storage.items[2].id = tasks[1].id
  /\ storage.items[1].id # tasks[1].id
  /\ queue = <<SetItem(stringify(variant, tasks))>>

(* C8: saving a collection and loading what was saved gives a collection   *)
(* of the same length whose tasks have, in the same order, the same id,    *)
(* title and completed value.                                              *)
C8_RoundTrip ==
  /\ [](LET r == loadTasks(variant, stringify(variant, tasks)) IN
          /\ r.set
          /\ r.report = "none"
          /\ Len(r.tasks) = Len(tasks)
          /\ \A i \in 1..Len(tasks) :
               /\ r.tasks[i].id = tasks[i].id
               /\ r.tasks[i].title = tasks[i].title
               /\ r.tasks[i].completed = tasks[i].completed)
  \* the load of a slot that a save has written puts what it holds in memory
  /\ [][(completeGetItem /\ storage.kind = "array") =>
          /\ Len(tasks') = Len(storage.items)
          /\ \A i \in 1..Len(tasks') :
               /\ tasks'[i].id = storage.items[i].id
               /\ tasks'[i].title = storage.items[i].title
               /\ tasks'[i].completed = storage.items[i].completed]_vars

\* after a restart the load has put two tasks, one of them completed, into
\* memory, and the save of the loaded collection is outstanding
C8_Witness ==
  /\ restarts = 1
  /\ Len(tasks) = 2
  /\ tasks[1].completed
  /\ ~tasks[2].completed
  /\ Len(queue) = 2
  /\ queue[2] = SetItem(stringify(variant, tasks))
  /\ storage = stringify(variant, tasks)

(* C9: after a load completes every task in memory has isEditing = false,  *)
(* whatever the persisted snapshot held.                                   *)
C9_LoadResetsEditing ==
  [][completeGetItem => \A i \in 1..Len(tasks') : ~tasks'[i].isEditing]_vars

(* C10: when the slot holds a value that is no sequence of task records,   *)
(* load reports a failure and the collection in memory stays empty.        *)
C10_MalformedLoadReported ==
  [][(completeGetItem /\ IsMalformed(storage)) =>
       (loadReport' # "none" /\ tasks' = <<>>)]_vars

C12_StartupKeepsSnapshot ==
  queue = <<>> => (tasks # <<>> /\ storage = stringify(variant, tasks))

(* C13: while the process runs, a task that is in the in-memory collection *)
(* leaves it only by removeTask with its id; a load that completes after   *)
(* an add keeps the added task.                                            *)
C13_OnlyRemoveDeletes ==
  [][restarts' = restarts =>
       \A i \in 1..Len(tasks) :
         \/ \E j \in 1..Len(tasks') : tasks'[j].id = tasks[i].id
         \/ removeTask(tasks[i].id)]_vars

====
